---- MODULE Spec2Model ----
(***************************************************************************)
(* Model of insilico_stimuli/stimuli.py: the parameter-space enumeration   *)
(* engine of StimuliSet (params_from_idx, params_dict_from_idx,            *)
(* stimulus_from_idx, image_batches, images) and the four synthesizers     *)
(* GaborSet, PlaidsSet, DiffOfGaussians and CenterSurround built on it.    *)
(*                                                                         *)
(* Numbers.  Every scalar parameter (a Python float) is an exact rational  *)
(* <<n, d>> in lowest terms with d > 0; angles are rationals in units of   *)
(* pi.  A location is a pair of integers <<x, y>>.                         *)
(*                                                                         *)
(* Methods.  A Python method is an operator from the object (self) and the *)
(* arguments to a record [self |-> the object after the call, ret |-> the  *)
(* returned value], so that what a call leaves in the object is part of    *)
(* the model.  A returned value is [kind |-> "ok", value |-> v] or         *)
(* [kind |-> "ValueError", msg |-> m] for a raised exception.              *)
(***************************************************************************)
EXTENDS Integers, Sequences, FiniteSets, TLC

\* ------------------------------------------------------------------------
\* Bounds of the model
\* ------------------------------------------------------------------------
\* largest batch_size handed to image_batches
MaxBatch == 2
\* number of batch generators alive at the same time
NumGens == 2
\* how far outside [0, total) a requested idx may lie
IdxSlack == 2
\* largest number of combinations of an enumerated configuration
MaxTotal == 6

\* ------------------------------------------------------------------------
\* Exact arithmetic on parameter values
\* ------------------------------------------------------------------------
Abs(x) == IF x < 0 THEN -x ELSE x

RECURSIVE Gcd(_, _)
Gcd(a, b) == IF b = 0 THEN a ELSE Gcd(b, a % b)

\* the rational n/d in lowest terms, d > 0
Rat(n, d) ==
    LET g == Gcd(Abs(n), Abs(d))
        s == IF d < 0 THEN -1 ELSE 1
    IN  <<(s * n) \div g, (s * d) \div g>>

RatAdd(a, b) == Rat(a[1] * b[2] + b[1] * a[2], a[2] * b[2])
RatSub(a, b) == Rat(a[1] * b[2] - b[1] * a[2], a[2] * b[2])
RatMul(a, b) == Rat(a[1] * b[1], a[2] * b[2])
RatDiv(a, b) == Rat(a[1] * b[2], a[2] * b[1])
RatAbs(a) == <<Abs(a[1]), a[2]>>
RatLeq(a, b) == a[1] * b[2] <= b[1] * a[2]
RatMin(a, b) == IF RatLeq(a, b) THEN a ELSE b

Ok(v) == [kind |-> "ok", value |-> v]
ValueError(m) == [kind |-> "ValueError", msg |-> m]

\* ------------------------------------------------------------------------
\* Python / numpy helpers used by the classes
\* ------------------------------------------------------------------------
\* range(a, b) as a sequence
range(a, b) == [i \in 1..(IF b > a THEN b - a ELSE 0) |-> a + i - 1]

RECURSIVE Flatten(_)
Flatten(ss) == IF ss = <<>> THEN <<>> ELSE Head(ss) \o Flatten(Tail(ss))

\* [[x, y] for x in range(cr[0], cr[1]) for y in range(cr[2], cr[3])]
\* (cr is 1-based here: cr[1..4])
grid_locations(cr) ==
    LET xs == range(cr[1], cr[2])
        ys == range(cr[3], cr[4])
    IN  Flatten([i \in 1..Len(xs) |-> [j \in 1..Len(ys) |-> <<xs[i], ys[j]>>]])

\* np.arange(k) * pi / k, in units of pi
even_orientations(k) == [i \in 1..k |-> Rat(i - 1, k)]
\* np.arange(k) * (2*pi) / k, in units of pi
even_phases(k) == [i \in 1..k |-> Rat(2 * (i - 1), k)]

\* np.prod over a list of ints
RECURSIVE prod(_)
prod(s) == IF s = <<>> THEN 1 ELSE Head(s) * prod(Tail(s))

\* np.unravel_index(idx, shape), C order: the digits are taken from the last
\* dimension to the first, dividing the remaining value by each radix; an
\* idx outside [0, prod(shape)) raises ValueError (no wrap-around).
RECURSIVE unravel_loop(_, _, _)
unravel_loop(val, shape, i) ==
    IF i = 0 THEN <<>>
    ELSE Append(unravel_loop(val \div shape[i], shape, i - 1), val % shape[i])

\* the same loop run from the first dimension to the last (order='F')
RECURSIVE unravel_loop_F(_, _, _)
unravel_loop_F(val, shape, i) ==
    IF i > Len(shape) THEN <<>>
    ELSE <<val % shape[i]>> \o unravel_loop_F(val \div shape[i], shape, i + 1)

unravel_order_F(idx, shape) == unravel_loop_F(idx, shape, 1)

\* every digit taken from the undivided value
unravel_order_undivided(idx, shape) == [i \in 1..Len(shape) |-> idx % shape[i]]

unravel_order(idx, shape) == unravel_loop(idx, shape, Len(shape))

\* Python sequence indexing idx % n instead of a range check
unravel_index_wrapping(idx, shape) == Ok(unravel_order(idx % prod(shape), shape))

unravel_index(idx, shape) ==
    IF idx < 0 \/ idx >= prod(shape)
    THEN ValueError("index is out of bounds for array")
    ELSE Ok(unravel_order(idx, shape))

\* ------------------------------------------------------------------------
\* Constructors.  An optional argument is <<"None">> or <<"list", v>>;
\* orientations / phases are <<"int", k>> or <<"list", v>>.
\* ------------------------------------------------------------------------
locations_or_grid(locations, cr) ==
    IF locations[1] = "None" THEN grid_locations(cr) ELSE locations[2]

boundaries_or_default(pixel_boundaries) ==
    IF pixel_boundaries[1] = "None" THEN <<Rat(-1, 1), Rat(1, 1)>> ELSE pixel_boundaries[2]

orientations_or_even(orientations) ==
    IF orientations[1] # "list" THEN even_orientations(orientations[2]) ELSE orientations[2]

phases_or_even(phases) ==
    IF phases[1] # "list" THEN even_phases(phases[2]) ELSE phases[2]

gammas_of(eccentricities) ==
    IF eccentricities[1] = "None" THEN <<Rat(1, 1)>>
    ELSE [i \in 1..Len(eccentricities[2]) |->
            RatSub(Rat(1, 1), RatMul(eccentricities[2][i], eccentricities[2][i]))]

GaborSet_init(canvas_size, center_range, sizes, spatial_frequencies, contrasts, orientations, phases, grey_level, pixel_boundaries, eccentricities, locations, relative_sf) ==
    [class |-> "GaborSet",
     canvas_size |-> canvas_size,
     cr |-> center_range,
     locations |-> locations_or_grid(locations, center_range),
     sizes |-> sizes,
     spatial_frequencies |-> spatial_frequencies,
     contrasts |-> contrasts,
     grey_level |-> grey_level,
     pixel_boundaries |-> boundaries_or_default(pixel_boundaries),
     orientations |-> orientations_or_even(orientations),
     phases |-> phases_or_even(phases),
     gammas |-> gammas_of(eccentricities),
     relative_sf |-> relative_sf]

PlaidsSet_init(canvas_size, center_ranges, sizes, spatial_frequencies, orientations, phases, contrasts_preferred, contrasts_orthogonal, grey_level, pixel_boundaries, eccentricities, locations, relative_sf) ==
    [class |-> "PlaidsSet",
     canvas_size |-> canvas_size,
     cr |-> center_ranges,
     locations |-> locations_or_grid(locations, center_ranges),
     sizes |-> sizes,
     spatial_frequencies |-> spatial_frequencies,
     orientations |-> orientations_or_even(orientations),
     phases |-> phases_or_even(phases),
     gammas |-> gammas_of(eccentricities),
     contrasts_preferred |-> contrasts_preferred,
     contrasts_orthogonal |-> contrasts_orthogonal,
     grey_level |-> grey_level,
     pixel_boundaries |-> boundaries_or_default(pixel_boundaries),
     relative_sf |-> relative_sf]

DiffOfGaussians_init(canvas_size, center_range, sizes, sizes_scale_surround, contrasts, contrasts_scale_surround, grey_level, pixel_boundaries, locations) ==
    [class |-> "DiffOfGaussians",
     canvas_size |-> canvas_size,
     cr |-> center_range,
     locations |-> locations_or_grid(locations, center_range),
     sizes |-> sizes,
     sizes_scale_surround |-> sizes_scale_surround,
     contrasts |-> contrasts,
     grey_level |-> grey_level,
     contrasts_scale_surround |-> contrasts_scale_surround,
     pixel_boundaries |-> boundaries_or_default(pixel_boundaries)]

CenterSurround_init(canvas_size, center_range, sizes_total, sizes_center, sizes_surround, contrasts_center, contrasts_surround, orientations_center, orientations_surround, spatial_frequencies, phases_center, phases_surround, grey_level, pixel_boundaries, locations, relative_sf) ==
    [class |-> "CenterSurround",
     canvas_size |-> canvas_size,
     cr |-> center_range,
     locations |-> locations_or_grid(locations, center_range),
     sizes_total |-> sizes_total,
     sizes_center |-> sizes_center,
     sizes_surround |-> sizes_surround,
     contrasts_center |-> contrasts_center,
     contrasts_surround |-> contrasts_surround,
     grey_level |-> grey_level,
     pixel_boundaries |-> boundaries_or_default(pixel_boundaries),
     orientations_center |-> orientations_or_even(orientations_center),
     orientations_surround |-> orientations_or_even(orientations_surround),
     phases_center |-> phases_or_even(phases_center),
     phases_surround |-> phases_or_even(phases_surround),
     spatial_frequencies |-> spatial_frequencies,
     relative_sf |-> relative_sf]

\* ------------------------------------------------------------------------
\* params(): the ordered descriptors <<value list, name>> of each class
\* ------------------------------------------------------------------------
GaborSet_params(self) ==
    << <<self.locations, "location">>,
       <<self.sizes, "size">>,
       <<self.spatial_frequencies, "spatial_frequency">>,
       <<self.contrasts, "contrast">>,
       <<self.orientations, "orientation">>,
       <<self.phases, "phase">>,
       <<self.gammas, "gamma">> >>

PlaidsSet_params(self) ==
    << <<self.locations, "location">>,
       <<self.sizes, "size">>,
       <<self.spatial_frequencies, "spatial_frequency">>,
       <<self.orientations, "orientation">>,
       <<self.phases, "phase">>,
       <<self.gammas, "gamma">>,
       <<self.contrasts_preferred, "contrast_preferred">>,
       <<self.contrasts_orthogonal, "contrast_orthogonal">> >>

DiffOfGaussians_params(self) ==
    << <<self.locations, "location">>,
       <<self.sizes, "size">>,
       <<self.sizes_scale_surround, "size_scale_surround">>,
       <<self.contrasts, "contrast">>,
       <<self.contrasts_scale_surround, "contrast_scale_surround">> >>

CenterSurround_params(self) ==
    << <<self.locations, "location">>,
       <<self.sizes_total, "size_total">>,
       <<self.sizes_center, "size_center">>,
       <<self.sizes_surround, "size_surround">>,
       <<self.contrasts_center, "contrast_center">>,
       <<self.contrasts_surround, "contrast_surround">>,
       <<self.orientations_center, "orientation_center">>,
       <<self.orientations_surround, "orientation_surround">>,
       <<self.spatial_frequencies, "spatial_frequency">>,
       <<self.phases_center, "phase_center">>,
       <<self.phases_surround, "phase_surround">> >>

\* self.params(), dispatched on the class of the object
params(self) ==
    CASE self.class = "GaborSet" -> GaborSet_params(self)
      [] self.class = "PlaidsSet" -> PlaidsSet_params(self)
      [] self.class = "DiffOfGaussians" -> DiffOfGaussians_params(self)
      [] self.class = "CenterSurround" -> CenterSurround_params(self)

\* [len(p[0]) for p in self.params()]
lengths(ps) == [i \in 1..Len(ps) |-> Len(ps[i][1])]
num_params(self) == lengths(params(self))

\* ------------------------------------------------------------------------
\* Index resolution
\* ------------------------------------------------------------------------
\* [p[0][c[i]] for i, p in enumerate(self.params())]   (c is 0-based)
select_params(self, c) == [i \in 1..Len(c) |-> params(self)[i][1][c[i] + 1]]

\* the return of params_from_idx once np.unravel_index has answered with c
selected(self, c) ==
    IF c.kind # "ok" THEN [self |-> self, ret |-> c]
    ELSE [self |-> self, ret |-> Ok(select_params(self, c.value))]

StimuliSet_params_from_idx(self, idx) == selected(self, unravel_index(idx, num_params(self)))

\* params[2] /= params[1] on the fresh list params; p[3], p[2] are its
\* third and second slots (spatial_frequency, size)
divided(p) == [p EXCEPT ![3] = RatDiv(p[3], p[2])]

\* the division carried out on the configured list itself, as an in-place
\* division on a mutable element would
rescaled_inplace(self, c, p) ==
    IF self.relative_sf
    THEN [self |-> [self EXCEPT !.spatial_frequencies[c[3] + 1] = divided(p)[3]],
          ret |-> Ok(divided(p))]
    ELSE [self |-> self, ret |-> Ok(p)]

\* the division left out
rescaled_never(self, c, p) == [self |-> self, ret |-> Ok(p)]

\* if self.relative_sf: params[2] /= params[1]; self is not assigned to
rescaled(self, c, p) ==
    [self |-> self, ret |-> Ok(IF self.relative_sf THEN divided(p) ELSE p)]

GaborSet_selected(self, c) ==
    IF c.kind # "ok" THEN [self |-> self, ret |-> c]
    ELSE rescaled(self, c.value, select_params(self, c.value))

GaborSet_params_from_idx(self, idx) ==
    GaborSet_selected(self, unravel_index(idx, num_params(self)))

\* method resolution: GaborSet overrides it, PlaidsSet inherits the override
params_from_idx(self, idx) ==
    IF self.class \in {"GaborSet", "PlaidsSet"}
    THEN GaborSet_params_from_idx(self, idx)
    ELSE StimuliSet_params_from_idx(self, idx)

\* position of a parameter name in self.params()
name_pos(self, name) == CHOOSE i \in 1..Len(params(self)) : params(self)[i][2] = name

param_names(self) == {params(self)[i][2] : i \in 1..Len(params(self))}

\* {p[1]: params[i] for i, p in enumerate(self.params())}, r being what
\* self.params_from_idx(idx) gave
named(r) ==
    IF r.ret.kind # "ok" THEN r
    ELSE [self |-> r.self,
          ret |-> Ok([n \in param_names(r.self) |-> r.ret.value[name_pos(r.self, n)]])]

params_dict_from_idx(self, idx) == named(params_from_idx(self, idx))

\* ------------------------------------------------------------------------
\* Stimulus formulas.  The returned array is kept in closed form: the
\* record of the quantities that the pixel formula is evaluated with.
\* ------------------------------------------------------------------------
\* the distance to the farther boundary taken
amplitude_of_farther(self, contrast) ==
    RatMul(contrast,
           IF RatLeq(RatAbs(RatSub(self.pixel_boundaries[1], self.grey_level)),
                     RatAbs(RatSub(self.pixel_boundaries[2], self.grey_level)))
           THEN RatAbs(RatSub(self.pixel_boundaries[2], self.grey_level))
           ELSE RatAbs(RatSub(self.pixel_boundaries[1], self.grey_level)))

\* contrast * min(abs(low - grey_level), abs(high - grey_level))
amplitude_of(self, contrast) ==
    RatMul(contrast, RatMin(RatAbs(RatSub(self.pixel_boundaries[1], self.grey_level)),
                            RatAbs(RatSub(self.pixel_boundaries[2], self.grey_level))))

\* amplitude * envelope * grating + grey_level over the canvas
GaborSet_stimulus(self, location, size, spatial_frequency, contrast, orientation, phase, gamma) ==
    Ok([formula |-> "gabor",
        shape |-> <<self.canvas_size[2], self.canvas_size[1]>>,
        location |-> location,
        orientation |-> orientation,
        gamma |-> gamma,
        size |-> size,
        spatial_frequency |-> spatial_frequency,
        phase |-> phase,
        amplitude |-> amplitude_of(self, contrast),
        grey_level |-> self.grey_level])

\* gabor_preferred + gabor_orthogonal
PlaidsSet_stimulus(self, location, size, spatial_frequency, orientation, phase, gamma, contrast_preferred, contrast_orthogonal) ==
    Ok([formula |-> "plaid",
        preferred |-> GaborSet_stimulus(self, location, size, spatial_frequency,
                          contrast_preferred, orientation, phase, gamma).value,
        orthogonal |-> GaborSet_stimulus(self, location, size, spatial_frequency,
                          contrast_orthogonal, RatAdd(orientation, Rat(1, 2)),
                          phase, gamma).value])

\* the guard written without the boundary value
DiffOfGaussians_invalid_strict(size_scale_surround) ==
    ~ RatLeq(Rat(1, 1), size_scale_surround)

\* size_scale_surround <= 1
DiffOfGaussians_invalid(size_scale_surround) == RatLeq(size_scale_surround, Rat(1, 1))

DiffOfGaussians_stimulus(self, location, size, size_scale_surround, contrast, contrast_scale_surround) ==
    IF DiffOfGaussians_invalid(size_scale_surround)
    THEN ValueError("size_surround must be larger than 1.")
    ELSE Ok([formula |-> "dog",
             shape |-> <<self.canvas_size[2], self.canvas_size[1]>>,
             location |-> location,
             scale_center |-> size,
             scale_surround |-> RatMul(size_scale_surround, size),
             contrast_scale_surround |-> contrast_scale_surround,
             amplitude_required |-> amplitude_of(self, contrast),
             grey_level |-> self.grey_level])

\* the guard written with >=
CenterSurround_invalid_nonstrict(size_center, size_surround) ==
    RatLeq(size_surround, size_center)

\* size_center > size_surround
CenterSurround_invalid(size_center, size_surround) == ~ RatLeq(size_center, size_surround)

\* envelope_center * grating_center_contrast
\*   + envelope_surround * grating_surround_contrast   (no grey_level term)
CenterSurround_stimulus(self, location, size_total, size_center, size_surround, contrast_center, contrast_surround, orientation_center, orientation_surround, spatial_frequency, phase_center, phase_surround) ==
    IF CenterSurround_invalid(size_center, size_surround)
    THEN ValueError("size_center cannot be larger than size_surround")
    ELSE Ok([formula |-> "center_surround",
             shape |-> <<self.canvas_size[2], self.canvas_size[1]>>,
             location |-> location,
             radius_center |-> RatMul(size_center, size_total),
             radius_surround |-> RatMul(size_surround, size_total),
             radius_total |-> size_total,
             orientation_center |-> orientation_center,
             orientation_surround |-> orientation_surround,
             spatial_frequency |-> spatial_frequency,
             phase_center |-> phase_center,
             phase_surround |-> phase_surround,
             amplitude_center |-> amplitude_of(self, contrast_center),
             amplitude_surround |-> amplitude_of(self, contrast_surround)])

\* self.stimulus(**kw): the keyword arguments bound by name
stimulus(self, kw) ==
    CASE self.class = "GaborSet" ->
            GaborSet_stimulus(self, kw["location"], kw["size"], kw["spatial_frequency"],
                kw["contrast"], kw["orientation"], kw["phase"], kw["gamma"])
      [] self.class = "PlaidsSet" ->
            PlaidsSet_stimulus(self, kw["location"], kw["size"], kw["spatial_frequency"],
                kw["orientation"], kw["phase"], kw["gamma"], kw["contrast_preferred"],
                kw["contrast_orthogonal"])
      [] self.class = "DiffOfGaussians" ->
            DiffOfGaussians_stimulus(self, kw["location"], kw["size"],
                kw["size_scale_surround"], kw["contrast"], kw["contrast_scale_surround"])
      [] self.class = "CenterSurround" ->
            CenterSurround_stimulus(self, kw["location"], kw["size_total"],
                kw["size_center"], kw["size_surround"], kw["contrast_center"],
                kw["contrast_surround"], kw["orientation_center"],
                kw["orientation_surround"], kw["spatial_frequency"], kw["phase_center"],
                kw["phase_surround"])

\* a formula that, on refusing its arguments, leaves the parameter space of
\* the object emptied
applied_invalidating(d) ==
    IF d.ret.kind # "ok" THEN d
    ELSE IF stimulus(d.self, d.ret.value).kind = "ok"
         THEN [self |-> d.self, ret |-> stimulus(d.self, d.ret.value)]
         ELSE [self |-> [d.self EXCEPT !.locations = <<>>],
               ret |-> stimulus(d.self, d.ret.value)]

\* self.stimulus(**d), d being what self.params_dict_from_idx(idx) gave
applied(d) ==
    IF d.ret.kind # "ok" THEN d
    ELSE [self |-> d.self, ret |-> stimulus(d.self, d.ret.value)]

\* self.stimulus(**self.params_dict_from_idx(idx))
stimulus_from_idx(self, idx) == applied(params_dict_from_idx(self, idx))

\* [self.stimulus_from_idx(i) for i in range(lo, hi)]: the calls are made in
\* increasing i; the first one that raises ends the comprehension.
RECURSIVE comprehension(_, _, _, _)
RECURSIVE collected(_, _, _, _)
\* a comprehension that leaves out a combination whose call raises
collected_skipping(r, i, hi, acc) ==
    IF r.ret.kind # "ok" THEN comprehension(r.self, i + 1, hi, acc)
    ELSE comprehension(r.self, i + 1, hi, Append(acc, r.ret.value))

collected(r, i, hi, acc) ==
    IF r.ret.kind # "ok" THEN r
    ELSE comprehension(r.self, i + 1, hi, Append(acc, r.ret.value))

comprehension(self, i, hi, acc) ==
    IF i >= hi THEN [self |-> self, ret |-> Ok(acc)]
    ELSE collected(stimulus_from_idx(self, i), i, hi, acc)

\* the indices i, in the order of the calls, at which the comprehension over
\* range(i, hi) calls self.stimulus_from_idx(i): no call follows one that
\* raised
RECURSIVE evaluated(_, _, _)
evaluated(self, i, hi) ==
    IF i >= hi THEN <<>>
    ELSE IF stimulus_from_idx(self, i).ret.kind # "ok" THEN <<i>>
    ELSE <<i>> \o evaluated(stimulus_from_idx(self, i).self, i + 1, hi)

\* a sweep that starts at the second combination
images_from_one(self) == comprehension(self, 1, prod(num_params(self)), <<>>)

\* np.array([self.stimulus_from_idx(i) for i in range(num_stims)])
images(self) == comprehension(self, 0, prod(num_params(self)), <<>>)

\* ------------------------------------------------------------------------
\* Pixel values.  exp and cos have no exact rational value in general: the
\* value of an array element is kept as Num(lo, hi), bounds that enclose the
\* float (lo = hi where the value is exact), as NaN, or as Unknown where no
\* bounds are known.
\* ------------------------------------------------------------------------
Num(lo, hi) == [kind |-> "num", lo |-> lo, hi |-> hi]
Exactly(q) == Num(q, q)
NaN == [kind |-> "nan", lo |-> Rat(0, 1), hi |-> Rat(0, 1)]
Unknown == [kind |-> "unknown", lo |-> Rat(0, 1), hi |-> Rat(0, 1)]

RatLeast(S) == CHOOSE q \in S : \A r \in S : RatLeq(q, r)
RatGreatest(S) == CHOOSE q \in S : \A r \in S : RatLeq(r, q)

\* the float operations a + b and a * b: NaN propagates
VAdd(a, b) ==
    IF a.kind = "nan" \/ b.kind = "nan" THEN NaN
    ELSE IF a.kind = "unknown" \/ b.kind = "unknown" THEN Unknown
    ELSE Num(RatAdd(a.lo, b.lo), RatAdd(a.hi, b.hi))

Products(a, b) ==
    {RatMul(a.lo, b.lo), RatMul(a.lo, b.hi), RatMul(a.hi, b.lo), RatMul(a.hi, b.hi)}

VMul(a, b) ==
    IF a.kind = "nan" \/ b.kind = "nan" THEN NaN
    ELSE IF a.kind = "unknown" \/ b.kind = "unknown" THEN Unknown
    ELSE Num(RatLeast(Products(a, b)), RatGreatest(Products(a, b)))

\* the pixel coordinates <<row, column>> of an array of the given shape
Pixels(shape) == (0..(shape[1] - 1)) \X (0..(shape[2] - 1))

\* np.meshgrid(np.arange(width) - location[0], np.arange(height) - location[1])
\* at pixel p: <<x, y>>
meshgrid_at(p, location) == <<p[2] - location[1], p[1] - location[2]>>

\* np.exp(-(x ** 2 + gamma * y ** 2) / (2 * (size/4)**2)) at the rotated
\* <<x, y>>: the rotation of <<0, 0>> is <<0, 0>>, where the exponent is
\* -0/d: exp gives 1, or NaN for d = 0 (size = 0); elsewhere the exponent is
\* negative and exp gives a value in [0, 1], or 0 for the exponent -inf
envelope_at(xy, size, gamma) ==
    IF xy = <<0, 0>>
    THEN (IF size[1] = 0 THEN NaN ELSE Exactly(Rat(1, 1)))
    ELSE IF gamma[1] < 0 THEN Unknown
    ELSE IF size[1] = 0 THEN (IF gamma[1] = 0 THEN Unknown ELSE Exactly(Rat(0, 1)))
    ELSE Num(Rat(0, 1), Rat(1, 1))

\* np.cos(spatial_frequency * x * (2*pi) + phase) at the rotated <<x, y>>:
\* cos(0.0) is 1.0, every other value lies in [-1, 1]
grating_at(xy, phase) ==
    IF xy = <<0, 0>> /\ phase[1] = 0 THEN Exactly(Rat(1, 1))
    ELSE Num(Rat(-1, 1), Rat(1, 1))

\* gabor = amplitude * gabor_no_contrast + self.grey_level, at one pixel
gabor_at(st, xy) ==
    VAdd(VMul(Exactly(st.amplitude),
              VMul(envelope_at(xy, st.size, st.gamma), grating_at(xy, st.phase))),
         Exactly(st.grey_level))

\* the array returned by GaborSet.stimulus
gabor_array(st) ==
    [p \in Pixels(st.shape) |-> gabor_at(st, meshgrid_at(p, st.location))]

\* plaid = gabor_preferred + gabor_orthogonal, element by element
plaid_array(st) ==
    [p \in Pixels(st.preferred.shape) |->
        VAdd(gabor_array(st.preferred)[p], gabor_array(st.orthogonal)[p])]

\* np.exp(-r2 / (2 * scale**2)) of gaussian_density at squared distance r2
\* from the mean
gaussian_density_at(r2, scale) ==
    IF r2 = 0 THEN (IF scale[1] = 0 THEN NaN ELSE Exactly(Rat(1, 1)))
    ELSE IF scale[1] = 0 THEN Exactly(Rat(0, 1))
    ELSE Num(Rat(0, 1), Rat(1, 1))

\* r2 of gaussian_density at pixel p: np.sum(np.square(coords - mean))
r2_at(p, location) == (p[2] - location[1]) * (p[2] - location[1]) + (p[1] - location[2]) * (p[1] - location[2])

\* center_surround = center - contrast_scale_surround * surround, at pixel p
center_surround_at(st, p) ==
    VAdd(gaussian_density_at(r2_at(p, st.location), st.scale_center),
         VMul(Exactly(RatSub(Rat(0, 1), st.contrast_scale_surround)),
              gaussian_density_at(r2_at(p, st.location), st.scale_surround)))

\* bounds of abs(v) for a value v
least_abs(v) ==
    IF RatLeq(v.lo, Rat(0, 1)) /\ RatLeq(Rat(0, 1), v.hi) THEN Rat(0, 1)
    ELSE RatLeast({RatAbs(v.lo), RatAbs(v.hi)})
greatest_abs(v) == RatGreatest({RatAbs(v.lo), RatAbs(v.hi)})

\* amplitude_current = max(np.abs(min_val), np.abs(max_val)) over the raw
\* field: the largest absolute value of the field; NaN if an element is NaN
amplitude_of_field(field) ==
    IF \E p \in DOMAIN field : field[p].kind = "nan" THEN NaN
    ELSE IF \E p \in DOMAIN field : field[p].kind = "unknown" THEN Unknown
    ELSE Num(RatGreatest({least_abs(field[p]) : p \in DOMAIN field}),
             RatGreatest({greatest_abs(field[p]) : p \in DOMAIN field}))

\* contrast_scaling = amplitude_required / amplitude_current.  The division
\* is not guarded: for amplitude_current = 0 it gives inf (or NaN for 0/0)
\* and, the field being 0 everywhere, inf * 0 = NaN at every pixel
contrast_scaling_of(amplitude_required, amplitude_current) ==
    IF amplitude_current.kind # "num" THEN amplitude_current
    ELSE IF amplitude_current.hi[1] = 0 THEN NaN
    ELSE IF amplitude_current.lo[1] = 0 THEN Unknown
    ELSE Num(RatLeast({RatDiv(amplitude_required, amplitude_current.lo),
                       RatDiv(amplitude_required, amplitude_current.hi)}),
             RatGreatest({RatDiv(amplitude_required, amplitude_current.lo),
                          RatDiv(amplitude_required, amplitude_current.hi)}))

\* diff_of_gaussians = contrast_scaling * center_surround + self.grey_level
scaled_field(field, contrast_scaling, grey_level) ==
    [p \in DOMAIN field |-> VAdd(VMul(contrast_scaling, field[p]), Exactly(grey_level))]

scaled(st, field) ==
    scaled_field(field, contrast_scaling_of(st.amplitude_required, amplitude_of_field(field)),
                 st.grey_level)

\* the array returned by DiffOfGaussians.stimulus
dog_array(st) == scaled(st, [p \in Pixels(st.shape) |-> center_surround_at(st, p)])

\* np.sqrt(x ** 2 + y ** 2) <= bound for the rotated <<x, y>> of xy.  The
\* rotation keeps the norm only up to rounding, which depends on cos, sin
\* and the matrix product of the build: e is the sign of the deviation of
\* the computed norm from sqrt(xy[1]^2 + xy[2]^2), and decides when the two
\* are equal.  <<0, 0>> is rotated exactly.
norm_leq(xy, e, bound) ==
    IF bound[1] < 0 THEN FALSE
    ELSE \/ (xy[1] * xy[1] + xy[2] * xy[2]) * bound[2] * bound[2] < bound[1] * bound[1]
         \/ /\ (xy[1] * xy[1] + xy[2] * xy[2]) * bound[2] * bound[2] = bound[1] * bound[1]
            /\ (xy = <<0, 0>> \/ e <= 0)

\* the deviations a rotation by the orientation can leave in the norm:
\* none for orientation 0 (cos = 1.0, sin = 0.0)
norm_errors(orientation) == IF orientation[1] = 0 THEN {0} ELSE {-1, 0, 1}

\* <<error of R_center, error of R_surround>>: equal orientations give the
\* same rotated coordinates
roundings(orientation_center, orientation_surround) ==
    {fl \in norm_errors(orientation_center) \X norm_errors(orientation_surround) :
        orientation_center = orientation_surround => fl[1] = fl[2]}

\* a mask as an array of 0.0 / 1.0
as_float(mask) == Exactly(IF mask THEN Rat(1, 1) ELSE Rat(0, 1))

\* envelope_center = (norm_xy_center <= size_center * size_total)
envelope_center_at(st, xy, fl) == norm_leq(xy, fl[1], st.radius_center)

\* envelope_surround = (norm_xy_surround > size_surround * size_total)
\*                      * (norm_xy_surround <= size_total)
envelope_surround_at(st, xy, fl) ==
    ~ norm_leq(xy, fl[2], st.radius_surround) /\ norm_leq(xy, fl[2], st.radius_total)

\* grating_center_contrast, grating_surround_contrast at one pixel
grating_center_contrast_at(st, xy) ==
    VMul(Exactly(st.amplitude_center), grating_at(xy, st.phase_center))
grating_surround_contrast_at(st, xy) ==
    VMul(Exactly(st.amplitude_surround), grating_at(xy, st.phase_surround))

\* envelope_center * grating_center_contrast
\*   + envelope_surround * grating_surround_contrast, at one pixel
center_surround_pixel(st, xy, fl) ==
    VAdd(VMul(as_float(envelope_center_at(st, xy, fl)), grating_center_contrast_at(st, xy)),
         VMul(as_float(envelope_surround_at(st, xy, fl)), grating_surround_contrast_at(st, xy)))

\* the array returned by CenterSurround.stimulus
center_surround_array(st, fl) ==
    [p \in Pixels(st.shape) |-> center_surround_pixel(st, meshgrid_at(p, st.location), fl)]

\* the values of the array that a stimulus method returned
array(st, fl) ==
    CASE st.formula = "gabor" -> gabor_array(st)
      [] st.formula = "plaid" -> plaid_array(st)
      [] st.formula = "dog" -> dog_array(st)
      [] st.formula = "center_surround" -> center_surround_array(st, fl)

\* the rounding outcomes that the evaluation of a stimulus depends on
roundings_of(st) ==
    IF st.formula = "center_surround"
    THEN roundings(st.orientation_center, st.orientation_surround)
    ELSE {<<0, 0>>}

\* ------------------------------------------------------------------------
\* image_batches: a generator.  Its frame holds the locals of the suspended
\* function: batch_size, num_stims, the array being iterated and the
\* position of the iterator in it; with them are kept what next() has
\* yielded and raised, and computed: for each next(), the indices whose
\* stimulus it computed.
\* ------------------------------------------------------------------------
\* only the full batches: range(num_stims // batch_size)
arange_full_only(stop, step) == [k \in 1..(stop \div step) |-> (k - 1) * step]

\* np.arange(0, stop, step)
arange(stop, step) == [k \in 1..((stop + step - 1) \div step) |-> (k - 1) * step]

\* np.minimum(batch_start + batch_size, num_stims)
batch_end_of(batch_start, batch_size, num_stims) ==
    IF batch_start + batch_size <= num_stims THEN batch_start + batch_size ELSE num_stims

NoFrame ==
    [state |-> "none", batch_size |-> 0, num_stims |-> 0, starts |-> <<>>, pos |-> 0,
     yielded |-> <<>>, raised |-> Ok(<<>>), computed |-> <<>>]

\* calling image_batches(batch_size) runs none of its body
new_frame(batch_size) == [NoFrame EXCEPT !.state = "created", !.batch_size = batch_size]

\* one cursor for all the generators of the object
cursor_shared(frames, g) ==
    LET m == CHOOSE h \in DOMAIN frames : \A k \in DOMAIN frames : frames[k].pos <= frames[h].pos
    IN  frames[m].pos

\* the iterator position is a local of generator g's own frame
cursor(frames, g) == frames[g].pos

\* yield np.array(images), r being what the list comprehension gave and
\* calls the indices it called stimulus_from_idx at
yielded_or_raised(r, f, pos, calls) ==
    IF r.ret.kind # "ok"
    THEN [self |-> r.self,
          frame |-> [f EXCEPT !.state = "failed", !.raised = r.ret,
                         !.computed = Append(f.computed, calls)]]
    ELSE [self |-> r.self,
          frame |-> [f EXCEPT !.state = "suspended", !.pos = pos,
                         !.yielded = Append(f.yielded, r.ret.value),
                         !.computed = Append(f.computed, calls)]]

\* the for loop taken up at position pos of the array it iterates
loop_at(self, f, pos) ==
    IF pos > Len(f.starts)
    THEN [self |-> self,
          frame |-> [f EXCEPT !.state = "exhausted", !.computed = Append(f.computed, <<>>)]]
    ELSE yielded_or_raised(
             comprehension(self, f.starts[pos],
                           batch_end_of(f.starts[pos], f.batch_size, f.num_stims), <<>>),
             f, pos,
             evaluated(self, f.starts[pos],
                       batch_end_of(f.starts[pos], f.batch_size, f.num_stims)))

\* num_stims = np.prod(self.num_params()) and the np.arange over it, set on
\* the first next() only
entered(f, num_stims) ==
    IF f.state = "created"
    THEN [f EXCEPT !.num_stims = num_stims, !.starts = arange(num_stims, f.batch_size)]
    ELSE f

\* next(generator): run the body from where it is suspended to the next
\* yield; a generator that has returned or raised is finished, next() on it
\* raises StopIteration and runs nothing
generator_next(self, frames, g) ==
    IF frames[g].state \in {"exhausted", "failed"}
    THEN [self |-> self, frame |-> frames[g]]
    ELSE loop_at(self, entered(frames[g], prod(num_params(self))), cursor(frames, g) + 1)

\* ------------------------------------------------------------------------
\* Configurations
\* ------------------------------------------------------------------------
Canvas == <<3, 3>>
NoneArg == <<"None">>
ListArg(v) == <<"list", v>>
IntArg(k) == <<"int", k>>

\* a grid of two centres, or one explicit location
LocationArgs ==
    { [center_range |-> <<0, 2, 1, 2>>, locations |-> NoneArg],
      [center_range |-> <<0, 0, 0, 0>>, locations |-> ListArg(<< <<1, 1>> >>)] }

SizeLists == { <<Rat(2, 1)>>, <<Rat(1, 1), Rat(2, 1)>> }
FrequencyLists == { <<Rat(1, 1)>>, <<Rat(1, 1), Rat(2, 1)>> }
\* the last list repeats a value
ContrastLists == { <<Rat(1, 1)>>, <<Rat(0, 1), Rat(1, 2), Rat(1, 1)>>, <<Rat(1, 1), Rat(1, 1)>> }
OrientationArgs == { ListArg(<<Rat(0, 1)>>), IntArg(2) }
GreyLevels == { Rat(0, 1), Rat(-1, 5) }
ScaleSurroundLists == { <<Rat(2, 1)>>, <<Rat(2, 1), Rat(1, 1), Rat(3, 1)>>, <<Rat(1, 2), Rat(3, 2)>> }
FractionLists == { <<Rat(1, 2)>>, <<Rat(1, 4), Rat(1, 2), Rat(3, 4)>> }

total_of(self) == prod(num_params(self))

GaborObjects ==
    { GaborSet_init(Canvas, l.center_range, sz, sf, ct, ori, IntArg(1), grey, NoneArg,
                    NoneArg, l.locations, rel) :
        l \in LocationArgs, sz \in SizeLists, sf \in FrequencyLists, ct \in ContrastLists,
        ori \in OrientationArgs, grey \in {Rat(0, 1)}, rel \in BOOLEAN }

PlaidsObjects ==
    { PlaidsSet_init(Canvas, l.center_range, sz, sf, ListArg(<<Rat(0, 1)>>), IntArg(2),
                     cp, <<Rat(1, 2)>>, grey, ListArg(<<Rat(0, 1), Rat(1, 1)>>),
                     ListArg(<<Rat(1, 2)>>), l.locations, rel) :
        l \in LocationArgs, sz \in SizeLists, sf \in FrequencyLists, cp \in ContrastLists,
        grey \in {Rat(1, 2)}, rel \in BOOLEAN }

DiffOfGaussiansObjects ==
    { DiffOfGaussians_init(Canvas, l.center_range, sz, sss, ct, <<Rat(1, 2)>>, grey,
                           NoneArg, l.locations) :
        l \in LocationArgs, sz \in SizeLists, sss \in ScaleSurroundLists,
        ct \in ContrastLists, grey \in GreyLevels }

CenterSurroundObjects ==
    { CenterSurround_init(Canvas, l.center_range, st, sc, ss, <<Rat(1, 1)>>, <<Rat(1, 2)>>,
                          IntArg(1), ListArg(<<Rat(1, 2)>>), sf, IntArg(1), IntArg(1),
                          Rat(0, 1), NoneArg, l.locations, rel) :
        l \in LocationArgs, st \in SizeLists, sc \in FractionLists, ss \in FractionLists,
        sf \in FrequencyLists, rel \in BOOLEAN }

\* every enumerated configuration of at most MaxTotal combinations
Objects ==
    { o \in GaborObjects \cup PlaidsObjects \cup DiffOfGaussiansObjects
            \cup CenterSurroundObjects : total_of(o) <= MaxTotal }

\* the configurations a single batch sequence is run on: 6, 4, 2, 3, 3, 2,
\* 4 and 1 combinations; the fifth has an invalid combination in the middle
\* and the seventh one at the head of its second chunk of two
SweepObjects ==
    { GaborSet_init(Canvas, <<0, 2, 1, 2>>, <<Rat(2, 1)>>, <<Rat(1, 1)>>,
                    <<Rat(0, 1), Rat(1, 2), Rat(1, 1)>>, IntArg(1), IntArg(1),
                    Rat(0, 1), NoneArg, NoneArg, NoneArg, TRUE),
      GaborSet_init(Canvas, <<0, 0, 0, 0>>, <<Rat(1, 1), Rat(2, 1)>>,
                    <<Rat(1, 1), Rat(2, 1)>>, <<Rat(1, 1)>>, IntArg(1), IntArg(1),
                    Rat(0, 1), NoneArg, NoneArg, ListArg(<< <<1, 1>> >>), TRUE),
      GaborSet_init(Canvas, <<0, 0, 0, 0>>, <<Rat(2, 1)>>, <<Rat(1, 1), Rat(2, 1)>>,
                    <<Rat(1, 2)>>, IntArg(1), IntArg(1), Rat(-1, 5), NoneArg, NoneArg,
                    ListArg(<< <<1, 1>> >>), FALSE),
      PlaidsSet_init(Canvas, <<0, 0, 0, 0>>, <<Rat(2, 1)>>, <<Rat(1, 1)>>,
                     ListArg(<<Rat(0, 1)>>), IntArg(1), <<Rat(0, 1), Rat(1, 2), Rat(1, 1)>>,
                     <<Rat(1, 2)>>, Rat(0, 1), NoneArg, NoneArg, ListArg(<< <<1, 1>> >>),
                     TRUE),
      DiffOfGaussians_init(Canvas, <<0, 0, 0, 0>>, <<Rat(1, 1)>>,
                     <<Rat(2, 1), Rat(1, 1), Rat(3, 1)>>, <<Rat(1, 1)>>, <<Rat(1, 2)>>,
                     Rat(0, 1), NoneArg, ListArg(<< <<1, 1>> >>)),
      DiffOfGaussians_init(Canvas, <<0, 2, 1, 2>>, <<Rat(1, 1)>>, <<Rat(2, 1)>>,
                     <<Rat(1, 1)>>, <<Rat(1, 2)>>, Rat(0, 1), NoneArg, NoneArg),
      DiffOfGaussians_init(Canvas, <<0, 0, 0, 0>>, <<Rat(1, 1)>>,
                     <<Rat(2, 1), Rat(3, 1), Rat(1, 1), Rat(3, 1)>>, <<Rat(1, 2)>>,
                     <<Rat(1, 2)>>, Rat(0, 1), NoneArg, ListArg(<< <<1, 1>> >>)),
      CenterSurround_init(Canvas, <<0, 0, 0, 0>>, <<Rat(2, 1)>>, <<Rat(1, 2)>>,
                     <<Rat(1, 2)>>, <<Rat(1, 1)>>, <<Rat(1, 2)>>, IntArg(1), IntArg(1),
                     <<Rat(1, 1)>>, IntArg(1), IntArg(1), Rat(0, 1), NoneArg,
                     ListArg(<< <<1, 1>> >>), TRUE) }

\* the configurations several batch sequences are interleaved on: 3, 2, 3
\* and 1 combinations; the third has an invalid combination in the middle
BatchObjects ==
    { PlaidsSet_init(Canvas, <<0, 0, 0, 0>>, <<Rat(2, 1)>>, <<Rat(1, 1)>>,
                     ListArg(<<Rat(0, 1)>>), IntArg(1), <<Rat(0, 1), Rat(1, 2), Rat(1, 1)>>,
                     <<Rat(1, 2)>>, Rat(0, 1), NoneArg, NoneArg, ListArg(<< <<1, 1>> >>),
                     TRUE),
      GaborSet_init(Canvas, <<0, 0, 0, 0>>, <<Rat(1, 1), Rat(2, 1)>>, <<Rat(2, 1)>>,
                    <<Rat(1, 1)>>, IntArg(1), IntArg(1), Rat(0, 1), NoneArg, NoneArg,
                    ListArg(<< <<1, 1>> >>), TRUE),
      DiffOfGaussians_init(Canvas, <<0, 0, 0, 0>>, <<Rat(1, 1)>>,
                     <<Rat(2, 1), Rat(1, 1), Rat(3, 1)>>, <<Rat(1, 1)>>, <<Rat(1, 2)>>,
                     Rat(0, 1), NoneArg, ListArg(<< <<1, 1>> >>)),
      CenterSurround_init(Canvas, <<0, 0, 0, 0>>, <<Rat(2, 1)>>, <<Rat(1, 2)>>,
                     <<Rat(1, 2)>>, <<Rat(1, 1)>>, <<Rat(1, 2)>>, IntArg(1), IntArg(1),
                     <<Rat(1, 1)>>, IntArg(1), IntArg(1), Rat(0, 1), NoneArg,
                     ListArg(<< <<1, 1>> >>), TRUE) }

\* the configurations whose stimuli are evaluated pixel by pixel.  GaborSet
\* on a canvas of 2 x 2 with the centre on it or off it, grey levels inside
\* and outside the pixel boundaries and a size of 0 (with relative_sf off:
\* the frequency cannot be divided by it)
PixelGaborObjects ==
    { GaborSet_init(<<2, 2>>, <<0, 0, 0, 0>>, se.sizes, <<Rat(1, 1)>>,
                    <<Rat(0, 1), Rat(1, 2), Rat(1, 1)>>, ListArg(<<Rat(0, 1)>>), ph, grey,
                    pb, se.eccentricities, ListArg(<<loc>>), FALSE) :
        se \in { [sizes |-> <<Rat(2, 1)>>, eccentricities |-> NoneArg],
                 [sizes |-> <<Rat(2, 1)>>, eccentricities |-> ListArg(<<Rat(1, 1)>>)],
                 [sizes |-> <<Rat(0, 1)>>, eccentricities |-> NoneArg] },
        ph \in { ListArg(<<Rat(0, 1)>>) },
        grey \in { Rat(0, 1), Rat(-1, 5), Rat(1, 2), Rat(2, 1) },
        pb \in { NoneArg, ListArg(<<Rat(0, 1), Rat(1, 1)>>) },
        loc \in { <<0, 0>>, <<3, 0>> } }

\* PlaidsSet with both contrasts running through 0
PixelPlaidsObjects ==
    { PlaidsSet_init(<<2, 1>>, <<0, 1, 0, 1>>, <<Rat(2, 1)>>, <<Rat(1, 1)>>,
                     ListArg(<<Rat(0, 1)>>), ListArg(<<Rat(0, 1)>>), <<Rat(0, 1), Rat(1, 1)>>,
                     <<Rat(0, 1), Rat(1, 2)>>, grey, NoneArg, NoneArg, NoneArg, TRUE) :
        grey \in { Rat(0, 1), Rat(1, 2) } }

\* DiffOfGaussians on a canvas of one pixel, at the location, and of two
PixelDiffOfGaussiansObjects ==
    { DiffOfGaussians_init(cv, <<0, 1, 0, 1>>, <<Rat(1, 1)>>, <<Rat(2, 1), Rat(1, 1)>>,
                           <<Rat(0, 1), Rat(1, 1)>>, css, grey, NoneArg, NoneArg) :
        cv \in { <<1, 1>>, <<2, 1>> },
        css \in { <<Rat(1, 2), Rat(2, 1)>>, <<Rat(1, 1)>> },
        grey \in { Rat(0, 1), Rat(-1, 5) } }

\* CenterSurround on a canvas of 4 x 1 with the centre on its first pixel;
\* the radii reach the pixels at distance 1 and 3
PixelCenterSurroundObjects ==
    { CenterSurround_init(<<4, 1>>, <<0, 1, 0, 1>>, st, <<Rat(1, 2)>>, ss, <<Rat(1, 1)>>,
                          <<Rat(1, 2)>>, ListArg(<<Rat(0, 1)>>), os, <<Rat(1, 1)>>,
                          ListArg(<<Rat(0, 1)>>), ListArg(<<Rat(0, 1)>>), Rat(1, 2),
                          NoneArg, NoneArg, FALSE) :
        st \in { <<Rat(6, 1)>>, <<Rat(2, 1), Rat(-2, 1)>> },
        ss \in { <<Rat(1, 2)>>, <<Rat(1, 4), Rat(3, 4)>> },
        os \in { ListArg(<<Rat(0, 1)>>), IntArg(3) } }

PixelObjects ==
    PixelGaborObjects \cup PixelPlaidsObjects \cup PixelDiffOfGaussiansObjects
        \cup PixelCenterSurroundObjects

\* ------------------------------------------------------------------------
\* State
\* ------------------------------------------------------------------------
\* self: the synthesizer object; constructed: the object as the constructor
\* left it; gens: the frames of the batch generators, by generator; ret: the
\* last direct call, [op, idx, res]; errors: the exceptions that
\* stimulus_from_idx has raised to its caller so far
VARIABLES self, constructed, gens, ret, errors

vars == <<self, constructed, gens, ret, errors>>

Gens == 1..NumGens
BatchSizes == 1..MaxBatch
NoCall == [op |-> "none", idx |-> 0, res |-> Ok(<<>>)]

InitOn(objects) ==
    /\ self \in objects
    /\ constructed = self
    /\ gens = [g \in Gens |-> NoFrame]
    /\ ret = NoCall
    /\ errors = {}

\* r = self.params_from_idx(idx)
CallParamsFromIdx(idx) ==
    LET r == params_from_idx(self, idx)
    IN  /\ self' = r.self
        /\ ret' = [op |-> "params_from_idx", idx |-> idx, res |-> r.ret]
        /\ UNCHANGED <<constructed, gens, errors>>

\* r = self.params_dict_from_idx(idx)
CallParamsDictFromIdx(idx) ==
    LET r == params_dict_from_idx(self, idx)
    IN  /\ self' = r.self
        /\ ret' = [op |-> "params_dict_from_idx", idx |-> idx, res |-> r.ret]
        /\ UNCHANGED <<constructed, gens, errors>>

\* what the caller has seen raised once res has come back
seen(raised_before, res) ==
    IF res.kind = "ok" THEN raised_before ELSE raised_before \cup {res}

\* r = self.stimulus_from_idx(idx)
CallStimulusFromIdx(idx) ==
    LET r == stimulus_from_idx(self, idx)
    IN  /\ self' = r.self
        /\ ret' = [op |-> "stimulus_from_idx", idx |-> idx, res |-> r.ret]
        /\ errors' = seen(errors, r.ret)
        /\ UNCHANGED <<constructed, gens>>

\* a = self.stimulus_from_idx(idx), and the values of the elements of a as
\* the float operations of the build (fl) give them
evaluated_array(r, fl) ==
    IF r.kind # "ok" THEN r ELSE Ok([pixels |-> array(r.value, fl), fl |-> fl])

roundings_for(r) == IF r.kind # "ok" THEN {<<0, 0>>} ELSE roundings_of(r.value)

CallStimulusArray(idx) ==
    \E fl \in roundings_for(stimulus_from_idx(self, idx).ret) :
        /\ self' = stimulus_from_idx(self, idx).self
        /\ ret' = [op |-> "array", idx |-> idx,
                   res |-> evaluated_array(stimulus_from_idx(self, idx).ret, fl)]
        /\ errors' = seen(errors, stimulus_from_idx(self, idx).ret)
        /\ UNCHANGED <<constructed, gens>>

\* r = self.images()
CallImages ==
    LET r == images(self)
    IN  /\ self' = r.self
        /\ ret' = [op |-> "images", idx |-> 0, res |-> r.ret]
        /\ UNCHANGED <<constructed, gens, errors>>

\* gens[g] = self.image_batches(b), in a free slot or over a finished generator
CallImageBatches(g, b) ==
    /\ gens[g].state \in {"none", "exhausted", "failed"}
    /\ gens' = [gens EXCEPT ![g] = new_frame(b)]
    /\ UNCHANGED <<self, constructed, ret, errors>>

\* next(gens[g]) on a generator that exists
Pull(g) ==
    /\ gens[g].state # "none"
    /\ LET r == generator_next(self, gens, g)
       IN  /\ self' = r.self
           /\ gens' = [gens EXCEPT ![g] = r.frame]
    /\ UNCHANGED <<constructed, ret, errors>>

ValidIdx == 0..(total_of(self) - 1)
AnyIdx == (0 - IdxSlack)..(total_of(self) - 1 + IdxSlack)

\* several batch sequences of one synthesizer, pulled in any order, with
\* stimulus_from_idx and images calls in between
Init == InitOn(BatchObjects)

Next ==
    \/ \E idx \in ValidIdx : CallStimulusFromIdx(idx)
    \/ CallImages
    \/ \E g \in Gens, b \in BatchSizes : CallImageBatches(g, b)
    \/ \E g \in Gens : Pull(g)

Spec == Init /\ [][Next]_vars

\* every call of the class, in any order, with one batch sequence at a time
InitSweep == InitOn(SweepObjects)

NextSweep ==
    \/ \E idx \in ValidIdx : CallParamsFromIdx(idx)
    \/ \E idx \in ValidIdx : CallParamsDictFromIdx(idx)
    \/ \E idx \in ValidIdx : CallStimulusFromIdx(idx)
    \/ CallImages
    \/ \E b \in BatchSizes : CallImageBatches(1, b)
    \/ Pull(1)

SpecSweep == InitSweep /\ [][NextSweep]_vars

\* the index-resolution calls alone, on every enumerated configuration and
\* with indices on both sides of the valid range
InitIdx == InitOn(Objects)

NextIdx ==
    \/ \E idx \in AnyIdx : CallParamsFromIdx(idx)
    \/ \E idx \in AnyIdx : CallParamsDictFromIdx(idx)
    \/ \E idx \in AnyIdx : CallStimulusFromIdx(idx)
    \/ CallImages

SpecIdx == InitIdx /\ [][NextIdx]_vars

\* the stimuli of small canvases, pixel by pixel
InitPixels == InitOn(PixelObjects)

NextPixels == \E idx \in ValidIdx : CallStimulusArray(idx)

SpecPixels == InitPixels /\ [][NextPixels]_vars

\* ------------------------------------------------------------------------
\* Properties
\* ------------------------------------------------------------------------
counts == num_params(self)
total == total_of(self)
Called(op) == ret.op = op /\ ret.res.kind = "ok"
Rescaling == self.class \in {"GaborSet", "PlaidsSet"} /\ self.relative_sf

\* product(counts[k+1..last])
Weight(k) == prod(SubSeq(counts, k + 1, Len(counts)))
\* the position of descriptor k (1-based k, 0-based position) selected by idx
Digit(idx, k) == (idx \div Weight(k)) % counts[k]
\* the configured value of descriptor k in combination idx
Configured(idx, k) == params(self)[k][1][Digit(idx, k) + 1]

\* C1: for a valid idx, params_from_idx(idx) returns for descriptor k the
\* value selected at position (idx div product(counts[k+1..last])) mod
\* counts[k] of its list: the last descriptor's position is idx mod
\* counts[last] and the first descriptor varies slowest.  (Where GaborSet
\* rescales, the spatial frequency returned is that selected value divided
\* by the selected size.)
C1_MixedRadix ==
    (ret.op = "params_from_idx" /\ ret.idx \in ValidIdx) =>
        /\ ret.res.kind = "ok"
        /\ Len(ret.res.value) = Len(counts)
        /\ Digit(ret.idx, Len(counts)) = ret.idx % counts[Len(counts)]
        /\ \A k \in 1..Len(counts) :
              IF Rescaling /\ k = 3
              THEN RatMul(ret.res.value[k], Configured(ret.idx, 2)) = Configured(ret.idx, k)
              ELSE ret.res.value[k] = Configured(ret.idx, k)
        /\ (ret.idx + 1 \in ValidIdx =>
              \E k \in 1..Len(counts) :
                 /\ Digit(ret.idx + 1, k) = Digit(ret.idx, k) + 1
                 /\ \A j \in 1..(k - 1) : Digit(ret.idx + 1, j) = Digit(ret.idx, j)
                 /\ \A j \in (k + 1)..Len(counts) :
                       Digit(ret.idx + 1, j) = 0 /\ Digit(ret.idx, j) = counts[j] - 1)

\* a resolved index strictly inside a space with two different radices > 1
C1_Witness ==
    /\ Called("params_from_idx")
    /\ ret.idx > 0 /\ ret.idx + 1 \in ValidIdx
    /\ \E j, k \in 1..Len(counts) : j < k /\ counts[j] > 1 /\ counts[k] > counts[j]
    /\ \E j, k \in 1..Len(counts) : j < k /\ Digit(ret.idx, j) # 0 /\ Digit(ret.idx, k) # 0

\* all tuples of positions: the product of the ranges 0..counts[k]-1
RECURSIVE PositionTuples(_)
PositionTuples(cs) ==
    IF cs = <<>> THEN {<<>>}
    ELSE {<<d>> \o t : d \in 0..(Head(cs) - 1), t \in PositionTuples(Tail(cs))}

\* the Cartesian product of the configured value lists, as assignments
CartesianProduct ==
    { [n \in param_names(self) |-> params(self)[name_pos(self, n)][1][t[name_pos(self, n)] + 1]] :
        t \in PositionTuples(counts) }

\* the number of values of a list, by counting its positions
Length(list) == Cardinality(DOMAIN list)
RECURSIVE ProductOfLengths(_)
ProductOfLengths(ps) ==
    IF ps = <<>> THEN 1 ELSE Length(Head(ps)[1]) * ProductOfLengths(Tail(ps))

NoRepeatedValue ==
    \A k \in 1..Len(counts) :
        \A i, j \in 1..counts[k] : i # j => params(self)[k][1][i] # params(self)[k][1][j]

AssignmentAt(idx) == params_dict_from_idx(self, idx).ret.value
PositionsAt(idx) == unravel_index(idx, counts).value
Accepted == {i \in AnyIdx : params_dict_from_idx(self, i).ret.kind = "ok"}

\* C2 as stated: the number of combinations is the product of the list
\* lengths, distinct indices give distinct assignments, and the sweep visits
\* every element of the Cartesian product of the descriptors.
C2_AsStated ==
    (ret.op = "params_dict_from_idx" /\ ret.idx \in ValidIdx) =>
        /\ Accepted = 0..(ProductOfLengths(params(self)) - 1)
        /\ \A j \in ValidIdx : j # ret.idx => AssignmentAt(j) # ret.res.value
        /\ {AssignmentAt(i) : i \in ValidIdx} = CartesianProduct

\* C2 (amended): the number of combinations is the product of the list
\* lengths; idx -> selected positions is a bijection from [0, total) onto
\* the product of the position ranges; params_dict_from_idx is injective
\* when no value list repeats a value; and when the class does not rescale
\* the spatial frequency the sweep visits exactly the Cartesian product of
\* the value lists.
C2_Bijection ==
    (ret.op = "params_dict_from_idx" /\ ret.idx \in ValidIdx) =>
        /\ ret.res.kind = "ok"
        /\ Accepted = 0..(ProductOfLengths(params(self)) - 1)
        /\ \A j \in ValidIdx : j # ret.idx => PositionsAt(j) # PositionsAt(ret.idx)
        /\ {PositionsAt(i) : i \in ValidIdx} = PositionTuples(counts)
        /\ NoRepeatedValue =>
              \A j \in ValidIdx : j # ret.idx => AssignmentAt(j) # ret.res.value
        /\ ~ Rescaling => {AssignmentAt(i) : i \in ValidIdx} = CartesianProduct
        /\ ~ Rescaling => ret.res.value \in CartesianProduct

\* the last index of a space with several multi-valued descriptors resolved
C2_Witness ==
    /\ Called("params_dict_from_idx")
    /\ total > 2 /\ ret.idx = total - 1
    /\ NoRepeatedValue
    /\ \E j, k \in 1..Len(counts) : j # k /\ counts[j] > 1 /\ counts[k] > 1

OutOfRange(res) == res.kind = "ValueError" /\ res.msg = "index is out of bounds for array"

\* C3: params_from_idx, params_dict_from_idx and stimulus_from_idx fail with
\* an out-of-range error for idx < 0 or idx >= total, for every class, and
\* return nothing for such an idx.
C3_IndexRange ==
    (ret.op \in {"params_from_idx", "params_dict_from_idx", "stimulus_from_idx"}
        /\ (ret.idx < 0 \/ ret.idx >= ProductOfLengths(params(self)))) =>
        OutOfRange(ret.res)

\* a negative index refused by a class that overrides params_from_idx
C3_Witness ==
    /\ ret.op = "stimulus_from_idx" /\ ret.idx = -1
    /\ self.class = "PlaidsSet" /\ total > 1
    /\ OutOfRange(ret.res)

\* ------------------------------------------------------------------------
\* Batches
\* ------------------------------------------------------------------------
RECURSIVE SumOfLengths(_)
SumOfLengths(chunks) ==
    IF chunks = <<>> THEN 0 ELSE Len(Head(chunks)) + SumOfLengths(Tail(chunks))

Started == {g \in Gens : gens[g].state # "none"}

\* C4: the chunk lengths of a fully consumed image_batches(b) sum to the
\* number of combinations N; every chunk but the last has length b; the last
\* has length N mod b, or b when b divides N; no chunk is empty.
C4_ChunkLengths ==
    \A g \in Started :
        LET b == gens[g].batch_size
            Y == gens[g].yielded
        IN  /\ \A k \in 1..Len(Y) : Len(Y[k]) >= 1 /\ Len(Y[k]) <= b
            /\ \A k \in 1..(Len(Y) - 1) : Len(Y[k]) = b
            /\ gens[g].state = "exhausted" =>
                  /\ SumOfLengths(Y) = ProductOfLengths(params(self))
                  /\ Len(Y) >= 1
                  /\ Len(Y[Len(Y)]) = (IF total % b = 0 THEN b ELSE total % b)

\* a generator consumed to the end whose last chunk is a short one
C4_Witness ==
    \E g \in Started :
        /\ gens[g].state = "exhausted"
        /\ Len(gens[g].yielded) >= 2
        /\ total % gens[g].batch_size # 0

StimulusAt(idx) == stimulus_from_idx(self, idx).ret.value

\* C5: images()[idx] is stimulus_from_idx(idx) for every valid idx; chunk k
\* (0-based) of image_batches(b) holds the stimuli of the indices
\* k*b .. min((k+1)*b, N)-1 in increasing order, so that the chunks of a
\* fully consumed sequence, concatenated, are images().
C5_SameStimuli ==
    /\ Called("images") =>
          /\ Len(ret.res.value) = total
          /\ \A idx \in ValidIdx : ret.res.value[idx + 1] = StimulusAt(idx)
    /\ \A g \in Started :
          LET b == gens[g].batch_size
              Y == gens[g].yielded
          IN  /\ \A k \in 1..Len(Y) :
                    /\ Len(Y[k]) = (IF k * b <= total THEN b ELSE total - (k - 1) * b)
                    /\ \A j \in 1..Len(Y[k]) : Y[k][j] = StimulusAt((k - 1) * b + j - 1)
              /\ (gens[g].state = "exhausted" /\ Called("images")) =>
                    Flatten(Y) = ret.res.value

\* a sequence of several chunks consumed to the end, and images() returned
C5_Witness ==
    /\ Called("images") /\ total >= 3
    /\ \E g \in Started :
          /\ gens[g].state = "exhausted"
          /\ gens[g].batch_size > 1
          /\ Len(gens[g].yielded) >= 2

\* the frame of a generator of batch size b that has been pulled n times
\* with no other generator around
RECURSIVE ConsumedAlone(_, _)
ConsumedAlone(b, n) ==
    IF n = 0 THEN new_frame(b)
    ELSE generator_next(constructed, <<ConsumedAlone(b, n - 1)>>, 1).frame

Pulls(f) == Len(f.yielded) + (IF f.state \in {"exhausted", "failed"} THEN 1 ELSE 0)

\* C6: every batch sequence starts at index 0 and, however the pulls on the
\* sequences of one synthesizer are interleaved with each other and with
\* direct calls, has yielded exactly what it yields when consumed alone.
C6_Independent ==
    \A g \in Started :
        gens[g] = ConsumedAlone(gens[g].batch_size, Pulls(gens[g]))

\* two sequences at different positions, one of them further along, with a
\* direct stimulus call made as well
C6_Witness ==
    /\ Called("stimulus_from_idx")
    /\ \E g, h \in Started :
          /\ g # h
          /\ gens[g].state = "suspended" /\ gens[h].state = "suspended"
          /\ gens[g].pos >= 2 /\ gens[h].pos = 1
          /\ gens[g].batch_size # gens[h].batch_size

\* what a direct call returns on the object as constructed
OnConstructed(op, idx) ==
    CASE op = "params_from_idx" -> params_from_idx(constructed, idx).ret
      [] op = "params_dict_from_idx" -> params_dict_from_idx(constructed, idx).ret
      [] op = "stimulus_from_idx" -> stimulus_from_idx(constructed, idx).ret
      [] op = "images" -> images(constructed).ret

\* C7: after any sequence of calls the object is as constructed (every value
\* list, grey_level, pixel_boundaries), and every call returns what the same
\* call returns on the freshly constructed object, so that a repeated call
\* returns what the first one did.
C7_Pure ==
    /\ self = constructed
    /\ ret.op # "none" => ret.res = OnConstructed(ret.op, ret.idx)
    /\ \A g \in Started : \A k \in 1..Len(gens[g].yielded) :
          \A j \in 1..Len(gens[g].yielded[k]) :
              gens[g].yielded[k][j] =
                  stimulus_from_idx(constructed, (k - 1) * gens[g].batch_size + j - 1).ret.value

\* an index of a rescaling GaborSet resolved again after a batch held it
C7_Witness ==
    /\ self.class = "GaborSet" /\ self.relative_sf
    /\ Called("stimulus_from_idx")
    /\ ret.res.value.spatial_frequency # Configured(ret.idx, 3)
    /\ \E g \in Started :
          /\ gens[g].batch_size = 2
          /\ Len(gens[g].yielded) * 2 > ret.idx
          /\ gens[g].yielded[(ret.idx \div 2) + 1][(ret.idx % 2) + 1] = ret.res.value

\* ------------------------------------------------------------------------
\* Relative spatial frequency
\* ------------------------------------------------------------------------
Conf(idx, name) == Configured(idx, name_pos(self, name))

\* sf is the configured frequency of combination idx divided by its size
\* when relative_sf is set, and the configured frequency itself otherwise
FrequencyOf(idx, sf, size_name) ==
    IF self.relative_sf
    THEN RatMul(sf, Conf(idx, size_name)) = Conf(idx, "spatial_frequency")
    ELSE sf = Conf(idx, "spatial_frequency")

\* the Gabor formula was run on combination idx with the given contrast
\* parameter and orientation offset
GaborArguments(idx, g, contrast_name, turn) ==
    /\ FrequencyOf(idx, g.spatial_frequency, "size")
    /\ g.location = Conf(idx, "location")
    /\ g.size = Conf(idx, "size")
    /\ g.orientation = RatAdd(Conf(idx, "orientation"), turn)
    /\ g.phase = Conf(idx, "phase")
    /\ g.gamma = Conf(idx, "gamma")
    /\ g.amplitude = amplitude_of(self, Conf(idx, contrast_name))

FormulaArguments(idx, st) ==
    IF self.class = "GaborSet"
    THEN GaborArguments(idx, st, "contrast", Rat(0, 1))
    ELSE /\ GaborArguments(idx, st.preferred, "contrast_preferred", Rat(0, 1))
         /\ GaborArguments(idx, st.orthogonal, "contrast_orthogonal", Rat(1, 2))

\* C8: in GaborSet and PlaidsSet, whichever call resolves an index, the
\* spatial frequency handed to the formula is the configured frequency of
\* the combination divided by the size of the same combination when
\* relative_sf is true and the configured frequency when it is false; every
\* other parameter is handed over unchanged.
C8_RelativeFrequency ==
    self.class \in {"GaborSet", "PlaidsSet"} =>
        /\ Called("params_from_idx") =>
              /\ FrequencyOf(ret.idx, ret.res.value[3], "size")
              /\ \A k \in 1..Len(counts) : k # 3 => ret.res.value[k] = Configured(ret.idx, k)
        /\ Called("params_dict_from_idx") =>
              /\ FrequencyOf(ret.idx, ret.res.value["spatial_frequency"], "size")
              /\ \A n \in param_names(self) \ {"spatial_frequency"} :
                    ret.res.value[n] = Conf(ret.idx, n)
        /\ Called("stimulus_from_idx") => FormulaArguments(ret.idx, ret.res.value)
        /\ Called("images") =>
              \A idx \in ValidIdx : FormulaArguments(idx, ret.res.value[idx + 1])
        /\ \A g \in Started : \A k \in 1..Len(gens[g].yielded) :
              \A j \in 1..Len(gens[g].yielded[k]) :
                  FormulaArguments((k - 1) * gens[g].batch_size + j - 1, gens[g].yielded[k][j])

\* a rescaling class, with a size other than 1 resolved directly and in a
\* batch
C8_Witness ==
    /\ self.class \in {"GaborSet", "PlaidsSet"} /\ self.relative_sf
    /\ Called("params_dict_from_idx")
    /\ Conf(ret.idx, "size") # Rat(1, 1)
    /\ ret.res.value["spatial_frequency"] # Conf(ret.idx, "spatial_frequency")
    /\ \E g \in Started : Len(gens[g].yielded) >= 2

\* C9: CenterSurround with relative_sf true hands the formula the
\* configured spatial frequency divided by the resolved size (size_total) of
\* the combination, and the configured frequency itself with relative_sf
\* false.
C9_CenterSurroundRelative ==
    (self.class = "CenterSurround" /\ Called("stimulus_from_idx")) =>
        FrequencyOf(ret.idx, ret.res.value.spatial_frequency, "size_total")

\* ------------------------------------------------------------------------
\* Domain validation
\* ------------------------------------------------------------------------
DomainError(res) == res.kind = "ValueError" /\ ~ OutOfRange(res)

\* n/d > 1 for a rational in lowest terms with d > 0
GreaterThanOne(q) == q[1] > q[2]
\* a/b > c/d
Exceeds(p, q) == p[1] * q[2] > q[1] * p[2]

\* C10: for a valid idx, DiffOfGaussians raises a domain error exactly when
\* the size_scale_surround of the combination is <= 1 (1 included) and
\* CenterSurround exactly when its size_center > size_surround (equality
\* accepted); otherwise a stimulus is returned.  Only the values of the
\* combination decide.
C10_DomainValidation ==
    (ret.op = "stimulus_from_idx" /\ ret.idx \in ValidIdx) =>
        /\ self.class = "DiffOfGaussians" =>
              IF GreaterThanOne(Conf(ret.idx, "size_scale_surround"))
              THEN ret.res.kind = "ok" /\ ret.res.value.formula = "dog"
              ELSE DomainError(ret.res)
        /\ self.class = "CenterSurround" =>
              IF Exceeds(Conf(ret.idx, "size_center"), Conf(ret.idx, "size_surround"))
              THEN DomainError(ret.res)
              ELSE ret.res.kind = "ok" /\ ret.res.value.formula = "center_surround"
        /\ self.class \in {"GaborSet", "PlaidsSet"} => ret.res.kind = "ok"

\* the boundary value 1 refused in a list that also holds accepted values
C10_Witness ==
    /\ self.class = "DiffOfGaussians"
    /\ ret.op = "stimulus_from_idx" /\ ret.idx \in ValidIdx
    /\ Conf(ret.idx, "size_scale_surround") = Rat(1, 1)
    /\ DomainError(ret.res)
    /\ \E i \in ValidIdx : GreaterThanOne(Conf(i, "size_scale_surround"))

\* ------------------------------------------------------------------------
\* Failure isolation
\* ------------------------------------------------------------------------
\* combination idx of the object is refused: it lies outside [0, total), or
\* its values are outside the domain of the formula of the class
InvalidCombination(idx) ==
    \/ idx < 0
    \/ idx >= ProductOfLengths(params(self))
    \/ /\ self.class = "DiffOfGaussians"
       /\ ~ GreaterThanOne(Conf(idx, "size_scale_surround"))
    \/ /\ self.class = "CenterSurround"
       /\ Exceeds(Conf(idx, "size_center"), Conf(idx, "size_surround"))

\* a step in which stimulus_from_idx was called and answered
StimulusCall == ret' # ret /\ ret'.op = "stimulus_from_idx"

C11_Step ==
    StimulusCall =>
        IF InvalidCombination(ret'.idx)
        THEN /\ ret'.res.kind = "ValueError"
             /\ self' = self /\ gens' = gens /\ constructed' = constructed
             /\ errors' = errors \cup {ret'.res}
        ELSE /\ ret'.res.kind = "ok"
             /\ ret'.res = stimulus_from_idx(constructed, ret'.idx).ret
             /\ self' = self /\ errors' = errors

\* C11: a stimulus_from_idx(i) that fails, with an index-range error or a
\* domain error, raises the error to the caller (no array is returned) and
\* leaves the synthesizer as it was before the call; a stimulus_from_idx(j)
\* of a valid combination j, whatever failures came before it, succeeds and
\* returns the array it returns on the freshly constructed synthesizer.
C11_FailureIsolated == [][C11_Step]_vars

\* a valid combination computed after both an index-range error and a
\* domain error had been raised, in a space that also has invalid combinations
C11_Witness ==
    /\ Called("stimulus_from_idx")
    /\ ~ InvalidCombination(ret.idx)
    /\ \E e \in errors : OutOfRange(e)
    /\ \E e \in errors : DomainError(e)
    /\ \E i \in ValidIdx : i < ret.idx /\ InvalidCombination(i)
    /\ ret.res = stimulus_from_idx(constructed, ret.idx).ret

\* ------------------------------------------------------------------------
\* Laziness of the batch sequence
\* ------------------------------------------------------------------------
Min(a, b) == IF a <= b THEN a ELSE b

\* the first invalid combination of the sweep, or total when all are valid
FirstInvalid ==
    IF \E i \in ValidIdx : InvalidCombination(i)
    THEN CHOOSE i \in ValidIdx :
            InvalidCombination(i) /\ \A j \in 0..(i - 1) : ~ InvalidCombination(j)
    ELSE total

\* the pull (1-based) on a sequence of batch size b that meets FirstInvalid
FailingPull(b) == (FirstInvalid \div b) + 1

\* the stimuli of chunk k (1-based) of batch size b
ChunkOf(k, b) ==
    [j \in 1..(Min(k * b, total) - (k - 1) * b) |-> StimulusAt((k - 1) * b + j - 1)]

\* C12: image_batches computes nothing when the sequence is created; the
\* k-th pull computes the stimuli of chunk k only, in increasing index
\* order (stopping at an invalid combination), and none of a later chunk.
\* When the first invalid combination lies in chunk k, the chunks before it
\* are delivered intact, the k-th pull raises the error, no chunk is
\* delivered afterwards, and images() raises instead of returning a partial
\* array.
C12_Lazy ==
    /\ \A g \in Started :
          LET f == gens[g]
              b == f.batch_size
          IN  /\ f.state = "created" => f.computed = <<>> /\ f.yielded = <<>>
              /\ Len(f.computed) = Pulls(f)
              /\ \A k \in 1..Len(f.computed) :
                    f.computed[k] =
                        range((k - 1) * b, Min(Min(k * b, total), FirstInvalid + 1))
              /\ \A k \in 1..Len(f.yielded) :
                    /\ FirstInvalid < total => k < FailingPull(b)
                    /\ f.yielded[k] = ChunkOf(k, b)
              /\ f.state = "failed" <=>
                    (FirstInvalid < total /\ Len(f.computed) = FailingPull(b))
              /\ f.state = "failed" =>
                    /\ Len(f.yielded) = FailingPull(b) - 1
                    /\ DomainError(f.raised)
                    /\ f.raised = stimulus_from_idx(self, FirstInvalid).ret
              /\ f.state = "exhausted" => FirstInvalid = total
              /\ f.state \in {"failed", "exhausted"} =>
                    generator_next(self, gens, g).frame = f
    /\ ret.op = "images" =>
          IF FirstInvalid < total
          THEN DomainError(ret.res) /\ ret.res = stimulus_from_idx(self, FirstInvalid).ret
          ELSE ret.res.kind = "ok" /\ Len(ret.res.value) = total

\* the first invalid combination heads the second chunk of two: the first
\* chunk was delivered, the second pull raised without computing the rest of
\* its chunk, and images() raised
C12_Witness ==
    /\ ret.op = "images" /\ DomainError(ret.res)
    /\ \E g \in Started :
          /\ gens[g].state = "failed"
          /\ gens[g].batch_size = 2
          /\ Len(gens[g].yielded) = 1 /\ Len(gens[g].yielded[1]) = 2
          /\ gens[g].computed = << <<0, 1>>, <<2>> >>
          /\ FirstInvalid = 2 /\ total = 4

\* ------------------------------------------------------------------------
\* Pixel values of the stimuli
\* ------------------------------------------------------------------------
Evaluated == ret.op = "array" /\ ret.res.kind = "ok"
\* the closed form of the evaluated stimulus, and the <<x, y>> of pixel p in it
Closed == StimulusAt(ret.idx)
At(p) == meshgrid_at(p, Closed.location)
InCenter(p) == envelope_center_at(Closed, At(p), ret.res.value.fl)
InSurround(p) == envelope_surround_at(Closed, At(p), ret.res.value.fl)

\* C13: in a CenterSurround stimulus (size_center <= size_surround) no
\* pixel is in both the center mask and the surround mask; every pixel is
\* the center grating value, the surround grating value, or exactly 0 when
\* it is in neither mask (grey_level is not added, the gratings are not
\* summed).
C13_MasksDisjoint ==
    (Evaluated /\ self.class = "CenterSurround") =>
        \A p \in Pixels(Closed.shape) :
            /\ ~ (InCenter(p) /\ InSurround(p))
            /\ ret.res.value.pixels[p] \in
                  { grating_center_contrast_at(Closed, At(p)),
                    grating_surround_contrast_at(Closed, At(p)),
                    Exactly(Rat(0, 1)) }
            /\ (~ InCenter(p) /\ ~ InSurround(p)) =>
                  ret.res.value.pixels[p] = Exactly(Rat(0, 1))

Low == self.pixel_boundaries[1]
High == self.pixel_boundaries[2]
InUnitInterval(q) == RatLeq(Rat(0, 1), q) /\ RatLeq(q, Rat(1, 1))

\* the value is a number inside the displayable range
Displayable(v) == v.kind = "num" /\ RatLeq(Low, v.lo) /\ RatLeq(v.hi, High)

GaborEvaluated ==
    /\ Evaluated /\ self.class = "GaborSet"
    /\ InUnitInterval(Conf(ret.idx, "contrast"))
    /\ InUnitInterval(Conf(ret.idx, "gamma"))

\* C14 as stated: for any contrast and gamma in [0, 1] every pixel of a
\* Gabor stimulus lies in [low, high], whatever grey_level, boundaries and
\* size.
C14_AsStated ==
    GaborEvaluated => \A p \in DOMAIN ret.res.value.pixels : Displayable(ret.res.value.pixels[p])

\* C14 (amended): when low <= grey_level <= high and size is not 0, for any
\* contrast and gamma in [0, 1] every pixel of a Gabor stimulus is a number
\* in [low, high], and within contrast * min(|low - grey_level|,
\* |high - grey_level|) of grey_level.
C14_InRange ==
    (/\ GaborEvaluated
     /\ RatLeq(Low, self.grey_level) /\ RatLeq(self.grey_level, High)
     /\ Conf(ret.idx, "size") # Rat(0, 1)) =>
        \A p \in DOMAIN ret.res.value.pixels :
            /\ Displayable(ret.res.value.pixels[p])
            /\ RatLeq(RatSub(self.grey_level, amplitude_of(self, Conf(ret.idx, "contrast"))),
                      ret.res.value.pixels[p].lo)
            /\ RatLeq(ret.res.value.pixels[p].hi,
                      RatAdd(self.grey_level, amplitude_of(self, Conf(ret.idx, "contrast"))))

\* full contrast around a grey level off the middle of the range: the peak
\* of the Gabor is on the canvas and the nearer boundary is reached
C14_Witness ==
    /\ GaborEvaluated
    /\ Conf(ret.idx, "contrast") = Rat(1, 1)
    /\ Conf(ret.idx, "size") # Rat(0, 1)
    /\ self.grey_level = Rat(-1, 5) /\ Low = Rat(-1, 1) /\ High = Rat(1, 1)
    /\ \E p \in DOMAIN ret.res.value.pixels :
          /\ At(p) = <<0, 0>>
          /\ ret.res.value.pixels[p] = Exactly(Rat(3, 5))
    /\ \E p \in DOMAIN ret.res.value.pixels : ret.res.value.pixels[p].lo = Low

\* every contrast parameter of combination idx is 0
AllContrastsZero(idx) ==
    CASE self.class = "GaborSet" -> Conf(idx, "contrast") = Rat(0, 1)
      [] self.class = "PlaidsSet" ->
            /\ Conf(idx, "contrast_preferred") = Rat(0, 1)
            /\ Conf(idx, "contrast_orthogonal") = Rat(0, 1)
      [] self.class = "DiffOfGaussians" -> Conf(idx, "contrast") = Rat(0, 1)
      [] OTHER -> FALSE

\* C15: with all of its contrast parameters 0, a stimulus of GaborSet,
\* PlaidsSet or DiffOfGaussians equals grey_level at every pixel, for every
\* grey_level and every value of the other parameters.  (A pixel whose
\* value has no known bounds is not held against the statement.)
C15_GreyBaseline ==
    (Evaluated /\ AllContrastsZero(ret.idx)) =>
        \A p \in DOMAIN ret.res.value.pixels :
            \/ ret.res.value.pixels[p].kind = "unknown"
            \/ ret.res.value.pixels[p] = Exactly(self.grey_level)

\* bounds of the largest absolute deviation of the pixels from grey_level
Deviation(v) == VAdd(v, Exactly(RatSub(Rat(0, 1), self.grey_level)))
LeastPeak(px) == RatGreatest({least_abs(Deviation(px[p])) : p \in DOMAIN px})
GreatestPeak(px) == RatGreatest({greatest_abs(Deviation(px[p])) : p \in DOMAIN px})

\* C16: for every valid DiffOfGaussians combination the returned array is
\* well defined (no NaN) and its largest absolute deviation from
\* grey_level is contrast * min(|low - grey_level|, |high - grey_level|),
\* whatever size, contrast_scale_surround, location and canvas.  (Where
\* the pixel values are known by bounds only, the amplitude has to lie
\* within the bounds of the peak.)
C16_ContrastHonored ==
    (Evaluated /\ self.class = "DiffOfGaussians") =>
        /\ \A p \in DOMAIN ret.res.value.pixels : ret.res.value.pixels[p].kind # "nan"
        /\ (\A p \in DOMAIN ret.res.value.pixels : ret.res.value.pixels[p].kind = "num") =>
              /\ RatLeq(LeastPeak(ret.res.value.pixels),
                        amplitude_of(self, Conf(ret.idx, "contrast")))
              /\ RatLeq(amplitude_of(self, Conf(ret.idx, "contrast")),
                        GreatestPeak(ret.res.value.pixels))

====
